---- MODULE Spec2Model ----
(***************************************************************************)
(* Token cache and refresh state machine of the Outlook MCP server:        *)
(* src/auth/token-manager.js (loadTokenCache, saveTokenCache,              *)
(* getAccessToken, refreshAccessToken, createTestTokens) and the auth      *)
(* entry point ensureAuthenticated (src/unnamed/part_000).                 *)
(*                                                                         *)
(* JavaScript runs every synchronous stretch of code to completion, so one *)
(* action of the model is one such stretch: a call of ensureAuthenticated  *)
(* up to its await, or the 'end' / 'error' callback of one HTTPS request   *)
(* together with the promise continuations it settles.                     *)
(***************************************************************************)
EXTENDS Integers, Sequences, FiniteSets, TLC

(***************************************************************************)
(* Bounds of the model.                                                    *)
(***************************************************************************)
NumCallers == 2
MaxTicks == 2

Callers == 1..NumCallers

(***************************************************************************)
(* Program constants.                                                      *)
(***************************************************************************)
\* the refresh margin of getAccessToken, in milliseconds
SafetyMargin == 5 * 60 * 1000
\* the lifetime createTestTokens gives its record, in milliseconds
TestLifetime == 3600 * 1000
\* Date.now() when the module is loaded: any instant later than the margin
T0 == 1000 * 1000

(***************************************************************************)
(* JavaScript values: strings, numbers, NaN, null and undefined.           *)
(***************************************************************************)
Str(s) == [t |-> "string", n |-> 0, s |-> s]
Num(n) == [t |-> "number", n |-> n, s |-> ""]
NaN == [t |-> "NaN", n |-> 0, s |-> ""]
JNull == [t |-> "null", n |-> 0, s |-> ""]
Undefined == [t |-> "undefined", n |-> 0, s |-> ""]

\* ToBoolean, as used by !x, x && y and x || y
Truthy(v) ==
  CASE v.t = "string" -> v.s # ""
    [] v.t = "number" -> v.n # 0
    [] OTHER -> FALSE

\* tokens.expires_at || 0, read as a number
OrZero(v) == IF Truthy(v) THEN v.n ELSE 0

\* the lifetime added as it comes, in seconds
ExpiresAtOf_Seconds(n, expiresIn) ==
  IF expiresIn.t = "number" THEN Num(n + expiresIn.n) ELSE NaN

\* Date.now() + (tokenResponse.expires_in * 1000)
ExpiresAtOf(n, expiresIn) ==
  IF expiresIn.t = "number" THEN Num(n + expiresIn.n * 1000)
  ELSE IF expiresIn.t = "null" THEN Num(n)
  ELSE NaN

(***************************************************************************)
(* Token objects: the fields the code reads or writes.  A missing property *)
(* reads as undefined.                                                     *)
(***************************************************************************)
Tokens(at, rt, ea, ei) ==
  [access_token |-> at, refresh_token |-> rt, expires_at |-> ea, expires_in |-> ei]

\* An object reference or null: <<>> is null, <<obj>> is the object.
Null == <<>>
Ref(obj) == <<obj>>
IsNull(r) == r = <<>>
Deref(r) == r[1]

\* The properties of a token object the model follows.
Keys == {"access_token", "refresh_token", "expires_at", "expires_in"}

\* a serialisation that writes numbers as null as well
StringifyValue_Lossy(v) == IF v.t \in {"NaN", "number"} THEN JNull ELSE v

\* JSON.stringify of one property value: NaN is written as null.
StringifyValue(v) == IF v.t = "NaN" THEN JNull ELSE v

\* JSON.stringify(tokens, null, 2): the text of the file, kept as its
\* "key": value members.  A property whose value is undefined has no member.
JSONstringify(obj) ==
  [k \in {j \in Keys : obj[j].t # "undefined"} |-> StringifyValue(obj[k])]

\* JSON.parse of such a text: a property with no member reads as undefined.
JSONparse(text) ==
  [k \in Keys |-> IF k \in DOMAIN text THEN text[k] ELSE Undefined]

(***************************************************************************)
(* The token file: missing, present with text that is not JSON, or present *)
(* with the JSON text of an object.                                        *)
(***************************************************************************)
FileMissing == [kind |-> "missing", text |-> <<>>]
FileGarbage == [kind |-> "garbage", text |-> <<>>]
FileJSON(text) == [kind |-> "json", text |-> <<text>>]

VARIABLES
  now,           \* Date.now()
  ticks,         \* number of clock steps taken
  cachedTokens,  \* the module-level cache: Null or Ref(token object)
  store,         \* the file at config.AUTH_CONFIG.tokenStorePath
  pc,            \* per caller: "idle", or "awaiting" (suspended at the await)
  req,           \* per caller: Null, or Ref(tokens.refresh_token) of its pending refresh
  last,          \* the call of ensureAuthenticated that completed last
  failed,        \* cachedTokens holds the record of a refresh that failed
  touched        \* cachedTokens has changed while the requests now pending were

vars == <<now, ticks, cachedTokens, store, pc, req, last, failed, touched>>

(***************************************************************************)
(* loadTokenCache: the value it returns and the cache it leaves.  Every    *)
(* exception is caught inside it, so it returns null or the parsed object. *)
(***************************************************************************)
\* loadTokenCache without the check of access_token
loadTokenCache_NoAccessCheck(st) ==
  IF st.kind = "json" THEN Ref(JSONparse(st.text[1])) ELSE Null

loadTokenCache(st) ==
  IF st.kind = "missing" THEN Null                    \* !fs.existsSync
  ELSE IF st.kind = "garbage" THEN Null               \* JSON.parse throws
  ELSE LET tokens == JSONparse(st.text[1])
       IN  IF ~Truthy(tokens.access_token) THEN Null  \* !tokens.access_token
           ELSE Ref(tokens)

\* cachedTokens = tokens, on the one path that returns the object
CacheAfterLoad(cache, st) ==
  IF IsNull(loadTokenCache(st)) THEN cache ELSE loadTokenCache(st)

(***************************************************************************)
(* saveTokenCache(tokens): write is how fs.writeFileSync went.  "ok": it   *)
(* returned.  "denied": it threw before touching the file.  "torn": it     *)
(* threw after truncating the file, which is left cut short.               *)
(***************************************************************************)
WriteOutcomes == {"ok", "denied", "torn"}

StoreAfterSave(st, tokens, write) ==
  CASE write = "ok" -> FileJSON(JSONstringify(tokens))
    [] write = "torn" -> FileGarbage
    [] OTHER -> st

\* cachedTokens = tokens, reached only when the write returned
CacheAfterSave(cache, tokens, write) ==
  IF write = "ok" THEN Ref(tokens) ELSE cache

\* the boolean saveTokenCache returns
saveTokenCache(write) == write = "ok"

(***************************************************************************)
(* getAccessToken, synchronous part.                                       *)
(***************************************************************************)
\* the test of expiry without the margin
IsExpiring_NoMargin(n, tokens) == n > OrZero(tokens.expires_at)

\* now > expiresAt - (5 * 60 * 1000)
IsExpiring(n, tokens) == n > OrZero(tokens.expires_at) - SafetyMargin

\* cachedTokens && cachedTokens.access_token
CacheUsable(cache) == ~IsNull(cache) /\ Truthy(Deref(cache).access_token)

\* The branch getAccessToken takes.
GetPath(cache, st, n) ==
  IF CacheUsable(cache)
  THEN IF IsExpiring(n, Deref(cache)) THEN "cache-refresh" ELSE "cache"
  ELSE IF IsNull(loadTokenCache(st)) THEN "absent"
       ELSE IF IsExpiring(n, Deref(loadTokenCache(st))) THEN "store-refresh"
            ELSE "store"

IsRefreshPath(path) == path \in {"cache-refresh", "store-refresh"}

(***************************************************************************)
(* refreshAccessToken, synchronous part: the precondition on the record    *)
(* just loaded.                                                            *)
(***************************************************************************)
\* the precondition without the check of refresh_token
HasRefreshToken_Any(tokens) == ~IsNull(tokens)

\* !( !tokens || !tokens.refresh_token )
HasRefreshToken(tokens) == ~IsNull(tokens) /\ Truthy(Deref(tokens).refresh_token)

(***************************************************************************)
(* Settled promises and errors.                                            *)
(***************************************************************************)
Pending == [state |-> "none", kind |-> "", value |-> Undefined]
Resolved(v) == [state |-> "resolved", kind |-> "", value |-> v]
Rejected(k) == [state |-> "rejected", kind |-> k, value |-> Undefined]

ErrNoRefreshToken == "No refresh token available"
ErrParse == "Error parsing token response"
ErrStatus == "Token refresh failed with status"
ErrTransport == "request error"

\* new Error(`Token refresh failed with status ${res.statusCode}: ${data}`)
RejectedStatus(statusCode) ==
  [state |-> "rejected", kind |-> ErrStatus, value |-> Num(statusCode)]

\* Outcomes of ensureAuthenticated
NoResult == [kind |-> "none", value |-> Undefined]
Returned(v) == [kind |-> "returned", value |-> v]
Thrown(msg) == [kind |-> "thrown", value |-> Str(msg)]
AuthenticationRequired == Thrown("Authentication required")

(***************************************************************************)
(* refreshAccessToken, the 'end' callback of the response.                 *)
(***************************************************************************)
\* res.statusCode >= 200 && res.statusCode < 300
Is2xx(statusCode) == statusCode >= 200 /\ statusCode < 300

\* the response's refresh token taken as it comes
PreserveRefreshToken_Dropped(responseRT, tokensRT) == responseRT

\* if (!tokenResponse.refresh_token && tokens.refresh_token) ...
PreserveRefreshToken(responseRT, tokensRT) ==
  IF ~Truthy(responseRT) /\ Truthy(tokensRT) THEN tokensRT ELSE responseRT

\* tokenResponse once expires_at is set and the refresh token preserved
NewRecord(body, tokens, n) ==
  [access_token |-> body.access_token,
   refresh_token |-> PreserveRefreshToken(body.refresh_token, tokens.refresh_token),
   expires_at |-> ExpiresAtOf(n, body.expires_in),
   expires_in |-> body.expires_in]

\* a callback that calls neither resolve nor reject on a status outside 2xx
SettleOnEnd_NoReject(statusCode, parses, body) ==
  IF Is2xx(statusCode)
  THEN IF parses THEN Resolved(body.access_token) ELSE Rejected(ErrParse)
  ELSE Pending

\* a callback that rejects with one and the same error
SettleOnEnd_OneKind(statusCode, parses, body) ==
  IF Is2xx(statusCode) /\ parses THEN Resolved(body.access_token)
  ELSE Rejected(ErrStatus)

\* How the promise settles once the response has ended.  The value
\* saveTokenCache returned is not looked at.
SettleOnEnd(statusCode, parses, body) ==
  IF Is2xx(statusCode)
  THEN IF parses THEN Resolved(body.access_token) ELSE Rejected(ErrParse)
  ELSE RejectedStatus(statusCode)

(***************************************************************************)
(* getAccessToken's handlers on the refresh promise, and the tail of       *)
(* ensureAuthenticated.                                                    *)
(***************************************************************************)
\* a catch handler that falls back on the cached access token
AfterRefresh_Stale(outcome, cache) ==
  IF outcome.state = "resolved" THEN outcome.value
  ELSE IF IsNull(cache) THEN JNull ELSE Deref(cache).access_token

\* .then(newToken => newToken)  /  .catch(error => null)
AfterRefresh(outcome, cache) ==
  IF outcome.state = "resolved" THEN outcome.value ELSE JNull

\* the tail without the check of the token
EnsureTail_NoCheck(accessToken) == Returned(accessToken)

\* if (!accessToken) throw ...; return accessToken; catch: throw anew
EnsureTail(accessToken) ==
  IF ~Truthy(accessToken) THEN AuthenticationRequired ELSE Returned(accessToken)

\* forceNew not looked at
ForceNewThrows_Ignored(forceNew) == FALSE

\* if (forceNew) throw new Error('Authentication required')
ForceNewThrows(forceNew) == forceNew

(***************************************************************************)
(* Inputs: what the provider may answer and what the file may hold when    *)
(* the process starts.                                                     *)
(***************************************************************************)
StatusCodes == {199, 200, 299, 300}
BodyAccessTokens == {Undefined, Str("A2")}
BodyRefreshTokens == {Undefined, Str("R2")}
BodyExpiresIn == {Undefined, Num(300)}
\* Bodies that parse to a JSON object.  EchoBody also carries an expires_at
\* of the provider's own.
Bodies ==
  {Tokens(at, rt, Undefined, ei) :
     at \in BodyAccessTokens, rt \in BodyRefreshTokens, ei \in BodyExpiresIn}
EchoBody == Tokens(Str("A2"), Undefined, Num(1), Num(300))
NoBody == Tokens(Undefined, Undefined, Undefined, Undefined)
\* A response and the fate of the write it may lead to.  What the code never
\* looks at is fixed: the body of a response that does not parse, and the
\* write that is then not made.  Every status code comes with a body that
\* does not parse, 200 with each body and each write, and the status codes
\* outside 2xx also with the body of a token response.
Response(statusCode, parses, body, write) ==
  [statusCode |-> statusCode, parses |-> parses, body |-> body, write |-> write]
Responses ==
  {Response(sc, FALSE, NoBody, "ok") : sc \in StatusCodes}
  \cup
  {Response(200, TRUE, b, w) : b \in Bodies \cup {EchoBody}, w \in WriteOutcomes}
  \cup
  {Response(sc, TRUE, EchoBody, "ok") : sc \in {x \in StatusCodes : ~Is2xx(x)}}

\* The file when the process starts: missing, damaged, or a JSON object, of
\* which one has no access_token and one an empty refresh_token.
InitRefreshTokens == {Undefined, Str("R1")}
InitExpiresAt ==
  {Undefined, Num(T0 - 1000), Num(T0 + SafetyMargin), Num(T0 + SafetyMargin + 1)}
InitStores ==
  {FileMissing, FileGarbage,
   FileJSON(JSONstringify(Tokens(Undefined, Str("R1"), Num(T0 + SafetyMargin), Undefined))),
   FileJSON(JSONstringify(Tokens(Str("A1"), Str(""), Num(T0 - 1000), Undefined)))}
  \cup
  {FileJSON(JSONstringify(Tokens(Str("A1"), rt, ea, Undefined))) :
     rt \in InitRefreshTokens, ea \in InitExpiresAt}

(***************************************************************************)
(* Initial state: the module has just been loaded.                         *)
(***************************************************************************)
\* One completed call: the path taken, how the promise of
\* refreshAccessToken settled (if one was made), the outcome, and whether
\* the requests now pending were already pending when it completed.
Call(path, refresh, outcome, joint) ==
  [via |-> path, refresh |-> refresh, result |-> outcome, joint |-> joint]

Init ==
  /\ now = T0
  /\ ticks = 0
  /\ cachedTokens = Null            \* let cachedTokens = null
  /\ store \in InitStores
  /\ pc = [c \in Callers |-> "idle"]
  /\ req = [c \in Callers |-> Null]
  /\ last = Call("none", Pending, NoResult, FALSE)
  /\ failed = FALSE
  /\ touched = FALSE

(***************************************************************************)
(* ensureAuthenticated(forceNew) up to its await, with the synchronous     *)
(* part of getAccessToken and of refreshAccessToken it runs.               *)
(***************************************************************************)
\* The access token getAccessToken returns at once on the paths without a refresh.
ImmediateToken(path, cache, st) ==
  CASE path = "cache" -> Deref(cache).access_token
    [] path = "store" -> Deref(loadTokenCache(st)).access_token
    [] OTHER -> JNull

\* The cache after the synchronous part: every path but "cache" calls
\* loadTokenCache (the refresh paths once more, on the same file).
CacheAfterGet(path, cache, st) ==
  IF path = "cache" THEN cache ELSE CacheAfterLoad(cache, st)

\* touched after a step: whether the cache has changed since the oldest of
\* the requests left pending was issued.  A request issued while none is
\* pending starts from the cache it has just loaded.
Touched(reqAfter, cacheAfter) ==
  /\ \E d \in Callers : ~IsNull(req[d]) /\ ~IsNull(reqAfter[d])
  /\ touched \/ cacheAfter # cachedTokens

ensureAuthenticated(c, forceNew) ==
  /\ pc[c] = "idle"
  /\ IF ForceNewThrows(forceNew)
     THEN /\ last' = Call("forceNew", Pending, AuthenticationRequired, FALSE)
          /\ UNCHANGED <<cachedTokens, pc, req, failed>>
     ELSE LET path == GetPath(cachedTokens, store, now)
              tokens == loadTokenCache(store)
          IN  /\ cachedTokens' = CacheAfterGet(path, cachedTokens, store)
              /\ IF IsRefreshPath(path)
                 THEN IF HasRefreshToken(tokens)
                      THEN \* the request is written and ended; the caller awaits
                           /\ req' = [req EXCEPT ![c] = Ref(Deref(tokens).refresh_token)]
                           /\ pc' = [pc EXCEPT ![c] = "awaiting"]
                           /\ failed' = (failed /\ cachedTokens' = cachedTokens)
                           /\ last' = [last EXCEPT !.joint = FALSE]
                      ELSE \* reject(new Error('No refresh token available'))
                           /\ last' = Call(path, Rejected(ErrNoRefreshToken),
                                 EnsureTail(AfterRefresh(Rejected(ErrNoRefreshToken),
                                                         cachedTokens')), FALSE)
                           /\ failed' = TRUE
                           /\ UNCHANGED <<pc, req>>
                 ELSE /\ last' = Call(path, Pending,
                            EnsureTail(ImmediateToken(path, cachedTokens, store)), FALSE)
                      /\ failed' = (failed /\ cachedTokens' = cachedTokens)
                      /\ UNCHANGED <<pc, req>>
  /\ touched' = Touched(req', cachedTokens')
  /\ UNCHANGED <<now, ticks, store>>

(***************************************************************************)
(* The 'end' callback of caller c's response, and the continuations of     *)
(* getAccessToken and ensureAuthenticated that the settled promise runs.   *)
(***************************************************************************)
\* The callers other than c whose requests are pending.
PendingBut(c) == {d \in Callers \ {c} : ~IsNull(req[d])}

\* a callback that saves whatever the response was
Saves_Always(r) == TRUE

\* The refresh got as far as saveTokenCache.
Saves(r) == Is2xx(r.statusCode) /\ r.parses

ResponseEnd(c, r) ==
  /\ pc[c] = "awaiting"
  /\ ~IsNull(req[c])
  /\ LET tokens == [refresh_token |-> Deref(req[c])]
         tokenResponse == NewRecord(r.body, tokens, now)
         outcome == SettleOnEnd(r.statusCode, r.parses, r.body)
     IN  /\ store' = IF Saves(r) THEN StoreAfterSave(store, tokenResponse, r.write)
                     ELSE store
         /\ cachedTokens' = IF Saves(r)
                            THEN CacheAfterSave(cachedTokens, tokenResponse, r.write)
                            ELSE cachedTokens
         /\ last' = Call("refresh", outcome,
               EnsureTail(AfterRefresh(outcome, cachedTokens')), PendingBut(c) # {})
         /\ failed' = IF outcome.state = "rejected" THEN ~touched
                       ELSE (failed /\ cachedTokens' = cachedTokens)
         \* the caller resumes once resolve or reject has been called
         /\ pc' = [pc EXCEPT ![c] = IF outcome.state = "none" THEN "awaiting"
                                     ELSE "idle"]
  /\ req' = [req EXCEPT ![c] = Null]
  /\ touched' = Touched(req', cachedTokens')
  /\ UNCHANGED <<now, ticks>>

\* req.on('error'): the request fails before a response has ended.
RequestError(c) ==
  /\ pc[c] = "awaiting"
  /\ ~IsNull(req[c])
  /\ last' = Call("refresh", Rejected(ErrTransport),
        EnsureTail(AfterRefresh(Rejected(ErrTransport), cachedTokens)), PendingBut(c) # {})
  /\ failed' = ~touched
  /\ req' = [req EXCEPT ![c] = Null]
  /\ pc' = [pc EXCEPT ![c] = "idle"]
  /\ touched' = Touched(req', cachedTokens)
  /\ UNCHANGED <<now, ticks, cachedTokens, store>>

(***************************************************************************)
(* createTestTokens                                                        *)
(***************************************************************************)
TestTokens(n) ==
  Tokens(Str("test_access_token_" \o ToString(n)),
         Str("test_refresh_token_" \o ToString(n)),
         Num(n + TestLifetime), Undefined)

createTestTokens(write) ==
  /\ store' = StoreAfterSave(store, TestTokens(now), write)
  /\ cachedTokens' = CacheAfterSave(cachedTokens, TestTokens(now), write)
  /\ failed' = (failed /\ cachedTokens' = cachedTokens)
  /\ touched' = Touched(req, cachedTokens')
  /\ UNCHANGED <<now, ticks, pc, req, last>>

(***************************************************************************)
(* The environment: the clock, and the file being removed or damaged.      *)
(***************************************************************************)
\* A millisecond passes.
Tick ==
  /\ ticks < MaxTicks
  /\ now' = now + 1
  /\ ticks' = ticks + 1
  /\ UNCHANGED <<cachedTokens, store, pc, req, last, failed, touched>>

FileDeleted ==
  /\ store.kind # "missing"
  /\ store' = FileMissing
  /\ UNCHANGED <<now, ticks, cachedTokens, pc, req, last, failed, touched>>

FileCorrupted ==
  /\ store.kind = "json"
  /\ store' = FileGarbage
  /\ UNCHANGED <<now, ticks, cachedTokens, pc, req, last, failed, touched>>

Next ==
  \/ \E c \in Callers, forceNew \in BOOLEAN : ensureAuthenticated(c, forceNew)
  \/ \E c \in Callers, r \in Responses : ResponseEnd(c, r)
  \/ \E c \in Callers : RequestError(c)
  \/ \E write \in WriteOutcomes : createTestTokens(write)
  \/ Tick
  \/ FileDeleted
  \/ FileCorrupted

Spec == Init /\ [][Next]_vars

(***************************************************************************)
(* Fairness: every request issued is eventually answered, by a response    *)
(* that ends or by an 'error' event.                                       *)
(***************************************************************************)
Delivered(c) == (\E r \in Responses : ResponseEnd(c, r)) \/ RequestError(c)

FairSpec == Spec /\ \A c \in Callers : WF_vars(Delivered(c))

(***************************************************************************)
(* Vocabulary of the properties, stated on the state alone.                *)
(***************************************************************************)
\* The callers whose refresh request is in flight.
InFlight == {c \in Callers : ~IsNull(req[c])}

\* The file is absent or unreadable.
StoreLost == store.kind \in {"missing", "garbage"}

\* The file holds no record loadTokenCache would return.
NoLoadableRecord ==
  \/ StoreLost
  \/ "access_token" \notin DOMAIN store.text[1]
  \/ store.text[1]["access_token"].t # "string"
  \/ store.text[1]["access_token"].s = ""

\* Milliseconds left to a record at instant n; a record without a usable
\* expires_at has none left.
Remaining(tokens, n) ==
  IF tokens.expires_at.t = "number" THEN tokens.expires_at.n - n ELSE 0 - n

\* Valid and ExpiringSoon as the specification defines them.
Valid(tokens, n) == Remaining(tokens, n) > 5 * 60 * 1000
ExpiringSoon(tokens, n) == ~Valid(tokens, n)

\* The outcome is a non-empty access token.
IsToken(outcome) ==
  outcome.kind = "returned" /\ outcome.value.t = "string" /\ outcome.value.s # ""

\* Caller c's pending request settles in this step.
Completes(c) == pc[c] = "awaiting" /\ pc'[c] = "idle"

(***************************************************************************)
(* C1.  While the record is ExpiringSoon, at most one refresh request is   *)
(* in flight at any time: a token request that arrives while one is in     *)
(* flight joins it.                                                        *)
(***************************************************************************)
C1_SingleFlight == Cardinality(InFlight) <= 1

(***************************************************************************)
(* C2.  Token requests whose refreshes are pending together complete with  *)
(* the same outcome: when one of them completes after another, it gets the *)
(* outcome the other got.                                                  *)
(***************************************************************************)
C2_SameOutcome ==
  [][\A c \in Callers :
       (Completes(c) /\ last.via = "refresh" /\ last.joint)
         => last'.result = last.result]_vars

(***************************************************************************)
(* C3.  ensureAuthenticated(true) fails with AuthenticationRequired in     *)
(* every state of cache and file, on the forceNew path alone: no refresh   *)
(* is made, no request issued, cache and file are left as they were.       *)
(***************************************************************************)
C3_ForceNew ==
  [][\A c \in Callers :
       ensureAuthenticated(c, TRUE)
         => /\ last'.result = AuthenticationRequired
            /\ last'.via = "forceNew"
            /\ last'.refresh = Pending
            /\ UNCHANGED <<cachedTokens, store, req, pc>>]_vars

\* forceNew has been answered while the cache held a record that would
\* have been served.
C3_Witness ==
  /\ last.via = "forceNew"
  /\ last.result = AuthenticationRequired
  /\ ~IsNull(cachedTokens)
  /\ Valid(Deref(cachedTokens), now)
  /\ Deref(cachedTokens).access_token = Str("A1")

(***************************************************************************)
(* C4.  With an empty cache and no loadable record in the file, a token    *)
(* request fails with AuthenticationRequired and issues no refresh         *)
(* request.                                                                *)
(***************************************************************************)
C4_TerminalAbsent ==
  [][\A c \in Callers :
       (ensureAuthenticated(c, FALSE) /\ IsNull(cachedTokens) /\ NoLoadableRecord)
         => /\ last'.result = AuthenticationRequired
            /\ last'.refresh = Pending
            /\ req' = req]_vars

C4_Witness ==
  /\ last.via = "absent"
  /\ last.result = AuthenticationRequired
  /\ IsNull(cachedTokens)
  /\ NoLoadableRecord
  /\ store.kind = "json"

(***************************************************************************)
(* C5.  Every completed ensureAuthenticated(false) either returns a        *)
(* non-empty access token or fails with AuthenticationRequired; no other   *)
(* error and no empty or null token reaches the caller.                    *)
(***************************************************************************)
C5_TwoOutcomes ==
  last.via \notin {"none", "forceNew"}
    => (IsToken(last.result) \/ last.result = AuthenticationRequired)

\* A refresh has resolved without an access token, and the caller was told
\* to authenticate.
C5_Witness ==
  /\ last.via = "refresh"
  /\ last.refresh.state = "resolved"
  /\ last.refresh.value = Undefined
  /\ last.result = AuthenticationRequired

(***************************************************************************)
(* C6.  A token request serves the access_token of the record at once,     *)
(* without a refresh, if and only if the record is Valid (expires_at more  *)
(* than 5 minutes after now); a record with 5 minutes left or less, or     *)
(* with no expires_at, is refreshed.                                       *)
(***************************************************************************)
\* The cache holds a record with an access token.
CacheHasToken ==
  /\ ~IsNull(cachedTokens)
  /\ Deref(cachedTokens).access_token.t = "string"
  /\ Deref(cachedTokens).access_token.s # ""

\* The record a token request examines: the cached one when it has an
\* access token, else the one in the file.
Examined ==
  IF CacheHasToken THEN Deref(cachedTokens) ELSE JSONparse(store.text[1])

C6_ValidIffServed ==
  [][\A c \in Callers :
       (ensureAuthenticated(c, FALSE) /\ (CacheHasToken \/ ~NoLoadableRecord))
         => (Valid(Examined, now)
               <=> /\ last'.via \in {"cache", "store"}
                   /\ last'.result = Returned(Examined.access_token)
                   /\ req' = req)]_vars

(***************************************************************************)
(* C7.  Refreshes never lose the refresh token: no step takes the record   *)
(* in cache and file from a non-empty refresh_token to an empty one, and a *)
(* saved response that omits refresh_token yields a record with the        *)
(* refresh_token of the record the refresh was made for.                   *)
(***************************************************************************)
\* The records held, if any, have a non-empty refresh_token.
RefreshTokenHeld ==
  /\ store.kind = "json"
       => /\ "refresh_token" \in DOMAIN store.text[1]
          /\ store.text[1]["refresh_token"].t = "string"
          /\ store.text[1]["refresh_token"].s # ""
  /\ ~IsNull(cachedTokens)
       => /\ Deref(cachedTokens).refresh_token.t = "string"
          /\ Deref(cachedTokens).refresh_token.s # ""

\* The responses that are saved and have no refresh_token.
SavedWithoutRefreshToken ==
  {Response(200, TRUE, b, "ok") :
     b \in {x \in Bodies \cup {EchoBody} : x.refresh_token = Undefined}}

C7_RefreshTokenKept ==
  [][/\ RefreshTokenHeld => RefreshTokenHeld'
     /\ \A c \in Callers, r \in SavedWithoutRefreshToken :
          (Completes(c) /\ ResponseEnd(c, r))
            => /\ Deref(cachedTokens').refresh_token = Deref(req[c])
               /\ store'.text[1]["refresh_token"] = Deref(req[c])]_vars

\* A response without refresh_token has been saved: the record has the new
\* access token and the refresh token of the record before it.
C7_Witness ==
  /\ last.via = "refresh"
  /\ last.result = Returned(Str("A2"))
  /\ ~IsNull(cachedTokens)
  /\ Deref(cachedTokens).access_token = Str("A2")
  /\ Deref(cachedTokens).refresh_token = Str("R1")
  /\ store = FileJSON(JSONstringify(Deref(cachedTokens)))

(***************************************************************************)
(* C8.  A refresh succeeds only once the new record is saved: when the     *)
(* write of the file fails, the refresh fails and the new access token is  *)
(* not returned.                                                           *)
(***************************************************************************)
\* The responses that reach saveTokenCache when the write fails.
WriteFails ==
  {Response(200, TRUE, b, w) : b \in Bodies \cup {EchoBody}, w \in {"denied", "torn"}}

C8_SavedBeforeSuccess ==
  [][\A c \in Callers, r \in WriteFails :
       (Completes(c) /\ ResponseEnd(c, r))
         => /\ last'.refresh.state = "rejected"
            /\ last'.result = AuthenticationRequired]_vars

(***************************************************************************)
(* C9.  A request whose refresh fails reports AuthenticationRequired, and  *)
(* the access_token of the record whose refresh failed is not served       *)
(* either by a later request made while that record is ExpiringSoon: such  *)
(* a request starts a refresh of its own or reports                        *)
(* AuthenticationRequired.                                                 *)
(***************************************************************************)
C9_StaleNotServed ==
  [][/\ last'.refresh.state = "rejected" => last'.result = AuthenticationRequired
     /\ \A c \in Callers :
          (ensureAuthenticated(c, FALSE) /\ failed /\ ~IsNull(cachedTokens)
             /\ ExpiringSoon(Deref(cachedTokens), now))
            => \/ pc'[c] = "awaiting"
               \/ last'.result = AuthenticationRequired]_vars

\* A refresh has failed, the record it was made for is still cached with
\* its access token, and a later request has started a refresh of its own.
C9_Witness ==
  /\ failed
  /\ last.refresh.state = "rejected"
  /\ last.result = AuthenticationRequired
  /\ ~last.joint
  /\ ~IsNull(cachedTokens)
  /\ Deref(cachedTokens).access_token = Str("A1")
  /\ InFlight # {}

(***************************************************************************)
(* C10.  Once the file is absent or unreadable after a record was loaded   *)
(* into the cache, no token request returns the access token of that       *)
(* record.                                                                 *)
(***************************************************************************)
C10_LostNotServed ==
  [][\A c \in Callers :
       (ensureAuthenticated(c, FALSE) /\ StoreLost /\ ~IsNull(cachedTokens))
         => last'.result = AuthenticationRequired]_vars

(***************************************************************************)
(* C10, amended.  Once the file is absent or unreadable after a record     *)
(* was loaded into the cache, a token request returns the access token of  *)
(* that record exactly as long as the record has 5 minutes or more left;   *)
(* from then on it fails with AuthenticationRequired.  Neither issues a    *)
(* refresh request.                                                        *)
(***************************************************************************)
C10_LostServedWhileFresh ==
  [][\A c \in Callers :
       (ensureAuthenticated(c, FALSE) /\ StoreLost /\ ~IsNull(cachedTokens))
         => /\ req' = req
            /\ IF Remaining(Deref(cachedTokens), now) >= 5 * 60 * 1000
                  /\ IsToken(Returned(Deref(cachedTokens).access_token))
               THEN last'.result = Returned(Deref(cachedTokens).access_token)
               ELSE last'.result = AuthenticationRequired]_vars

\* The file is gone, the cached record is due for refresh, and the request
\* was told to authenticate.
C10_Witness ==
  /\ StoreLost
  /\ ~IsNull(cachedTokens)
  /\ Deref(cachedTokens).access_token = Str("A1")
  /\ last.via = "cache-refresh"
  /\ last.refresh = Rejected(ErrNoRefreshToken)
  /\ last.result = AuthenticationRequired

(***************************************************************************)
(* Vocabulary of the properties on records and saves.                      *)
(***************************************************************************)
\* A record with every field the token file requires: access_token and
\* refresh_token non-empty strings, expires_at a number.
StructurallyValid(tokens) ==
  /\ tokens.access_token.t = "string" /\ tokens.access_token.s # ""
  /\ tokens.refresh_token.t = "string" /\ tokens.refresh_token.s # ""
  /\ tokens.expires_at.t = "number"

\* The responses that reach saveTokenCache with a write that succeeds.
SavedOK == {Response(200, TRUE, b, "ok") : b \in Bodies \cup {EchoBody}}

\* Those of them that carry what a token response must: an access_token and
\* a lifetime in seconds.
SavedTokenResponses ==
  {r \in SavedOK : r.body.access_token.t = "string" /\ r.body.expires_in.t = "number"}

\* The record caller c's refresh hands to saveTokenCache on response r.
RecordOf(c, r) == NewRecord(r.body, [refresh_token |-> Deref(req[c])], now)

(***************************************************************************)
(* C11.  Round trip: once saveTokenCache has written a structurally valid  *)
(* record r, loadTokenCache on the file as written returns a record equal  *)
(* to r field for field, and the cache is r, after the save and after the  *)
(* load.                                                                   *)
(***************************************************************************)
C11_RoundTrip ==
  [][/\ createTestTokens("ok")
          => /\ StructurallyValid(TestTokens(now))
             /\ cachedTokens' = Ref(TestTokens(now))
             /\ loadTokenCache(store') = Ref(TestTokens(now))
             /\ CacheAfterLoad(cachedTokens', store') = Ref(TestTokens(now))
     /\ \A c \in Callers, r \in SavedTokenResponses :
          (Completes(c) /\ StructurallyValid(RecordOf(c, r)) /\ ResponseEnd(c, r))
            => /\ cachedTokens' = Ref(RecordOf(c, r))
               /\ loadTokenCache(store') = Ref(RecordOf(c, r))
               /\ CacheAfterLoad(cachedTokens', store') = Ref(RecordOf(c, r))]_vars

\* A refresh has saved a structurally valid record, and a later request has
\* loaded it from the file again to refresh it.
C11_Witness ==
  /\ last.via = "refresh"
  /\ last.result = Returned(Str("A2"))
  /\ ~IsNull(cachedTokens)
  /\ StructurallyValid(Deref(cachedTokens))
  /\ Deref(cachedTokens).refresh_token = Str("R2")
  /\ Deref(cachedTokens).expires_at = Num(T0 + 300 * 1000)
  /\ loadTokenCache(store) = cachedTokens
  /\ InFlight # {}
  /\ ~touched

(***************************************************************************)
(* C12.  Neither the cache nor the file ever holds a record written by the *)
(* program that lacks a non-empty access_token: no step leaves such a      *)
(* record in the cache, and no step writes one to the file.  A 2xx         *)
(* response whose body has no access_token is neither saved nor cached.    *)
(***************************************************************************)
\* The file holds a JSON object with a non-empty access_token.
FileHasAccessToken(st) ==
  /\ st.kind = "json"
  /\ "access_token" \in DOMAIN st.text[1]
  /\ st.text[1]["access_token"].t = "string"
  /\ st.text[1]["access_token"].s # ""

\* The step has written the file: the program alone leaves JSON in it.
Written == store' # store /\ store'.kind = "json"

C12_NoEmptyAccessToken ==
  [][/\ ~IsNull(cachedTokens')
          => /\ Deref(cachedTokens').access_token.t = "string"
             /\ Deref(cachedTokens').access_token.s # ""
     /\ Written => FileHasAccessToken(store')]_vars

(***************************************************************************)
(* C13.  Whenever the cache holds a record and no refresh is in flight,    *)
(* the cached record equals the last record durably written to the file.   *)
(* A file that holds JSON holds the last record written to it.             *)
(***************************************************************************)
C13_CacheMatchesStore ==
  (~IsNull(cachedTokens) /\ InFlight = {} /\ store.kind = "json")
    => Deref(cachedTokens) = JSONparse(store.text[1])

(***************************************************************************)
(* C14.  After a successful refresh (a token response, saved) the caller   *)
(* is returned the access_token of the response, and cache and file hold   *)
(* one and the same new record, with that access_token and with            *)
(* expires_at = the instant the response was processed + expires_in *      *)
(* 1000, whatever expires_at the response or the record before carried.    *)
(***************************************************************************)
C14_RefreshResult ==
  [][\A c \in Callers, r \in SavedTokenResponses :
       (Completes(c) /\ ResponseEnd(c, r))
         => /\ last'.result = Returned(r.body.access_token)
            /\ ~IsNull(cachedTokens')
            /\ Deref(cachedTokens').access_token = r.body.access_token
            /\ Deref(cachedTokens').expires_at = Num(now + r.body.expires_in.n * 1000)
            /\ store'.kind = "json"
            /\ JSONparse(store'.text[1]) = Deref(cachedTokens')]_vars

\* A token response has been processed one millisecond after the module was
\* loaded and saved: the caller has its access token, cache and file the
\* record with the lifetime counted from that instant.
C14_Witness ==
  /\ last.via = "refresh"
  /\ last.result = Returned(Str("A2"))
  /\ ~IsNull(cachedTokens)
  /\ Deref(cachedTokens).access_token = Str("A2")
  /\ Deref(cachedTokens).expires_at = Num(T0 + 1 + 300 * 1000)
  /\ store.kind = "json"
  /\ JSONparse(store.text[1]) = Deref(cachedTokens)

(***************************************************************************)
(* C15.  A failed refresh (response not 2xx, transport error, body that    *)
(* does not parse, no refresh token) leaves the file as it was: neither    *)
(* the step that starts a refresh nor the step in which it fails writes,   *)
(* deletes or edits the file, and the failure puts no record in the cache  *)
(* other than the one in the file.                                         *)
(***************************************************************************)
C15_FailureLeavesStore ==
  [][\A c \in Callers :
       /\ ensureAuthenticated(c, FALSE) => store' = store
       /\ (Completes(c) /\ last'.refresh.state = "rejected")
            => /\ store' = store
               /\ cachedTokens' = cachedTokens
       /\ (ensureAuthenticated(c, FALSE) /\ IsRefreshPath(last'.via)
              /\ last'.refresh = Rejected(ErrNoRefreshToken))
            => /\ cachedTokens' \in {cachedTokens, loadTokenCache(store)}
               /\ ~IsNull(loadTokenCache(store))
                    => cachedTokens' = loadTokenCache(store)]_vars

\* A refresh made alone was answered with status 300: the file still holds
\* the record the refresh was made for, and the cache that record.
C15_Witness ==
  /\ last.via = "refresh"
  /\ last.refresh = RejectedStatus(300)
  /\ ~last.joint
  /\ InFlight = {}
  /\ ~IsNull(cachedTokens)
  /\ Deref(cachedTokens).access_token = Str("A1")
  /\ Deref(cachedTokens).refresh_token = Str("R1")
  /\ loadTokenCache(store) = cachedTokens

(***************************************************************************)
(* C16.  A refresh attempted when the record in the file is absent or has  *)
(* no refresh_token, or an empty one, fails at once with the error         *)
(* NoRefreshToken: no request is issued and the caller does not wait.      *)
(***************************************************************************)
\* The file holds no record, or one without a non-empty refresh_token.
NoRefreshTokenOnRecord ==
  \/ NoLoadableRecord
  \/ "refresh_token" \notin DOMAIN store.text[1]
  \/ store.text[1]["refresh_token"].t # "string"
  \/ store.text[1]["refresh_token"].s = ""

C16_NoRefreshTokenNoRequest ==
  [][\A c \in Callers :
       (ensureAuthenticated(c, FALSE) /\ NoRefreshTokenOnRecord
          /\ IsRefreshPath(GetPath(cachedTokens, store, now)))
         => /\ last'.refresh = Rejected(ErrNoRefreshToken)
            /\ last'.result = AuthenticationRequired
            /\ req' = req
            /\ pc' = pc]_vars

\* A record with an access token and no refresh token was due for refresh:
\* the refresh was rejected at once and nothing is in flight.
C16_Witness ==
  /\ last.via = "store-refresh"
  /\ last.refresh = Rejected(ErrNoRefreshToken)
  /\ last.result = AuthenticationRequired
  /\ InFlight = {}
  /\ ~NoLoadableRecord
  /\ NoRefreshTokenOnRecord
  /\ loadTokenCache(store) = cachedTokens

(***************************************************************************)
(* C17.  loadTokenCache never raises and returns a record only when the    *)
(* file exists, parses and holds a structurally valid record, with         *)
(* access_token, refresh_token and expires_at; otherwise it returns        *)
(* absent: the request that called it finds no record and the cache is     *)
(* left as it was.                                                         *)
(***************************************************************************)
\* The file holds a record with every required field.
FileStructurallyValid ==
  store.kind = "json" /\ StructurallyValid(JSONparse(store.text[1]))

C17_LoadChecksRequiredFields ==
  [][\A c \in Callers :
       (ensureAuthenticated(c, FALSE) /\ ~CacheHasToken /\ ~FileStructurallyValid)
         => /\ last'.via = "absent"
            /\ last'.result = AuthenticationRequired
            /\ cachedTokens' = cachedTokens]_vars

(***************************************************************************)
(* C18.  A 2xx response whose body does not parse makes the refresh fail   *)
(* with the parse error, a response outside 2xx with the status error,     *)
(* which carries the status code; the two errors differ, and in both cases *)
(* nothing is written to the file or the cache.                            *)
(***************************************************************************)
\* The 2xx responses whose body does not parse, and the responses outside 2xx.
Unparseable2xx == {r \in Responses : Is2xx(r.statusCode) /\ ~r.parses}
Non2xx == {r \in Responses : ~Is2xx(r.statusCode)}

C19_CallsComplete ==
  /\ [](\A c \in Callers : pc[c] = "awaiting" => ~IsNull(req[c]))
  /\ \A c \in Callers : (pc[c] = "awaiting") ~> (pc[c] = "idle")

\* Callers have waited on requests: one was answered by a response that was
\* saved, the last by a transport error, and nobody waits any more.
C19_Witness ==
  /\ last.via = "refresh"
  /\ last.refresh = Rejected(ErrTransport)
  /\ last.result = AuthenticationRequired
  /\ \A c \in Callers : pc[c] = "idle"
  /\ InFlight = {}
  /\ ~IsNull(cachedTokens)
  /\ Deref(cachedTokens).access_token = Str("A2")

(***************************************************************************)
(* C20.  When a response that omits refresh_token is saved, the            *)
(* refresh_token of the new record is that of the record it replaces, the  *)
(* one in the file right before the save, also when refreshes overlap: a   *)
(* refresh never puts back the refresh_token it started with over a newer  *)
(* one written by another refresh.                                         *)
(***************************************************************************)
\* The file holds a record with a non-empty refresh_token.
FileHasRefreshToken(st) ==
  /\ st.kind = "json"
  /\ "refresh_token" \in DOMAIN st.text[1]
  /\ st.text[1]["refresh_token"].t = "string"
  /\ st.text[1]["refresh_token"].s # ""

C20_CarriesCurrentRefreshToken ==
  [][\A c \in Callers, r \in SavedWithoutRefreshToken :
       (Completes(c) /\ ResponseEnd(c, r) /\ FileHasRefreshToken(store))
         => /\ store'.text[1]["refresh_token"] = store.text[1]["refresh_token"]
            /\ Deref(cachedTokens').refresh_token = store.text[1]["refresh_token"]]_vars

====
